---------------------------- MODULE Spec2Model ----------------------------
(***************************************************************************)
(* BraveOperationalProfiling                                               *)
(* (components/brave_federated_learning/brave_operational_profiling.cc):   *)
(* a two-timer scheduler that uploads the current collection slot, with a  *)
(* rotating collection id and three persisted preferences.                 *)
(*                                                                         *)
(* Time.  base::Timer counts on the monotonic clock; base::Time::Now() is  *)
(* the wall clock, which the user, NTP or a DST change may move in either  *)
(* direction.  The model keeps the two apart: Tick advances the timers'    *)
(* countdowns by TickSeconds, WallClockChange moves the wall clock `now'   *)
(* to another of the instants of Instants.  `now' counts minutes from the  *)
(* local midnight that begins a month; 0 is base::Time(), the null time.   *)
(*                                                                         *)
(* The collection id is an abstract token: EmptyId is the empty string,    *)
(* 1..MaxTokens are the texts base::UnguessableToken can produce.          *)
(***************************************************************************)
EXTENDS Integers, FiniteSets, Sequences, TLC

\* ------------------------------------------------------------------ bounds
\* The wall clock visits the first minute of the months 1..MaxMonths, each
\* of DaysInMonth days, and the instant one id lifetime into month 1.
MaxMonths == 2
DaysInMonth == 31
\* Feature parameters (operational_profiling::features), fixed per process:
\* slot sizes 1..MaxSlotSize minutes, durations 0..MaxSimulateDuration
\* minutes, an id lifetime of CollectionIdLifetime days.
MaxSlotSize == 2
MaxSimulateDuration == 1
CollectionIdLifetime == 1
\* Distinct texts of an unguessable token.
MaxTokens == 2
MaxBudget == 2                \* cap of the count of attempts still owed

\* --------------------------------------------------------------- constants
\* One step of the monotonic clock, in seconds: the period of the repeating
\* timer for a slot of one minute.
TickSeconds == (1 * 60) \div 2
\* std::string() / base::Time(): the values of default-constructed members
\* and the defaults of the two preferences.
EmptyId == 0
NullTime == 0
\* A null scoped_refptr<net::HttpResponseHeaders>.
NoHeaders == 0
\* Default of kLastCheckedSlotPrefName.
DefaultLastCheckedSlot == -1

VARIABLES
    now,                                \* base::Time::Now(), wall clock
    slot_size,                          \* GetCollectionSlotSizeValue()
    simulate_duration,                  \* GetSimulateLocalTrainingStepDurationValue()
    feature_enabled,                    \* IsOperationalProfilingEnabled()
    dcheck_is_on,                       \* whether the build compiles DCHECKs
    local_state_,                       \* the preference store
    last_checked_slot_,
    current_collected_slot_,
    collection_id_,
    collection_id_expiration_time_,
    simulate_local_training_step_timer_,
    collection_slot_periodic_timer_,
    url_loader_,
    registered,                         \* local_state_change_registrar_ observes kP3AEnabled
    crashed,                            \* a DCHECK failed: the process is gone
    event,                              \* the handler that ran last
    sent_in_slot,                       \* a request was issued since CurrentSlot last changed
    acked_slot,                         \* payload slot of the last request answered with 200
    attempt_budget                      \* 1 + periodic fires - attempts since Start(),
                                        \* capped, 0 without timers

vars == <<now, slot_size, simulate_duration, feature_enabled, dcheck_is_on,
          local_state_, last_checked_slot_, current_collected_slot_,
          collection_id_, collection_id_expiration_time_,
          simulate_local_training_step_timer_, collection_slot_periodic_timer_,
          url_loader_, registered, crashed, event, sent_in_slot,
          acked_slot, attempt_budget>>

config == <<slot_size, simulate_duration, feature_enabled, dcheck_is_on>>
members == <<last_checked_slot_, current_collected_slot_, collection_id_,
             collection_id_expiration_time_>>
timers == <<simulate_local_training_step_timer_, collection_slot_periodic_timer_>>
ghosts == <<sent_in_slot, acked_slot, attempt_budget>>

\* ------------------------------------------------------------------ values
Tokens == 1..MaxTokens
MonthMinutes == DaysInMonth * 24 * 60
\* GetCollectionIdLifetime() * 24 * 60 * 60 seconds, in minutes.
LifetimeMinutes == (CollectionIdLifetime * 24 * 60 * 60) \div 60
Instants ==
    {m * MonthMinutes : m \in 1..MaxMonths} \cup {MonthMinutes + LifetimeMinutes}
ResponseHeaders == {NoHeaders, 200, 404, 500}

\* A null std::unique_ptr<Timer>.
NullTimer == [exists |-> FALSE, running |-> FALSE, remaining |-> 0]
\* url_loader_ before the first request and after a completion callback ran.
NullLoader == [state |-> "null", slot |-> -1, id |-> EmptyId]
DoneLoader == [state |-> "done", slot |-> -1, id |-> EmptyId]

Ev(op, arg, saved, sent) == [op |-> op, arg |-> arg, saved |-> saved, sent |-> sent]

is_null(t) == t = NullTime

\* base::Time::LocalExplode: the fields GetCurrentCollectionSlot reads.
LocalExplode(t) ==
    [day_of_month |-> ((t \div (24 * 60)) % DaysInMonth) + 1,
     hour |-> (t \div 60) % 24,
     minute |-> t % 60]

GetCurrentCollectionSlot(t, size) ==
    LET e == LocalExplode(t)
    IN  ((e.day_of_month - 1) * 24 * 60 + e.hour * 60 + e.minute) \div size

\* Delays of the two timers, in ticks of the monotonic clock.
SimulateDelay(duration) == (duration * 60) \div TickSeconds
PeriodicDelay(size) == ((size * 60) \div 2) \div TickSeconds

Running ==
    simulate_local_training_step_timer_.exists
        \/ collection_slot_periodic_timer_.exists

CurrentSlot == GetCurrentCollectionSlot(now, slot_size)

\* -------------------------------------------------------------- operations
\* Mutant: SavePrefs forgets the expiration preference.
SavePrefs_DropsExpiration(prefs, last, id, exp) ==
    [prefs EXCEPT !.last_checked_slot = last, !.collection_id = id]

SavePrefs(prefs, last, id, exp) ==
    [prefs EXCEPT !.last_checked_slot = last,
                  !.collection_id = id,
                  !.collection_id_expiration = exp]

\* Mutant: the id is rotated at the instant of its expiration already.
MaybeReset_AtExpiration(prefs, last, id, exp, t, token) ==
    IF id = EmptyId \/ (~is_null(exp) /\ t >= exp)
    THEN LET newExp == t + LifetimeMinutes
         IN  [id |-> token, exp |-> newExp,
              prefs |-> [prefs EXCEPT !.last_checked_slot = last,
                                      !.collection_id = token,
                                      !.collection_id_expiration = newExp],
              saved |-> TRUE]
    ELSE [id |-> id, exp |-> exp, prefs |-> prefs, saved |-> FALSE]

\* Mutant: an empty id is not replaced, only an expired one.
MaybeReset_IgnoresEmpty(prefs, last, id, exp, t, token) ==
    IF ~is_null(exp) /\ t > exp
    THEN LET newExp == t + LifetimeMinutes
         IN  [id |-> token, exp |-> newExp,
              prefs |-> [prefs EXCEPT !.last_checked_slot = last,
                                      !.collection_id = token,
                                      !.collection_id_expiration = newExp],
              saved |-> TRUE]
    ELSE [id |-> id, exp |-> exp, prefs |-> prefs, saved |-> FALSE]

\* The members and preferences after MaybeResetCollectionId, `token' being
\* the text of the token base::UnguessableToken::Create() returns.
\* Mutant: a rotation is not saved.
MaybeReset_NoSave(prefs, last, id, exp, t, token) ==
    IF id = EmptyId \/ (~is_null(exp) /\ t > exp)
    THEN [id |-> token, exp |-> t + LifetimeMinutes, prefs |-> prefs,
          saved |-> FALSE]
    ELSE [id |-> id, exp |-> exp, prefs |-> prefs, saved |-> FALSE]

\* Mutant: a rotation saves the default cursor with the new id.
MaybeReset_ClearsCursor(prefs, last, id, exp, t, token) ==
    IF id = EmptyId \/ (~is_null(exp) /\ t > exp)
    THEN LET newExp == t + LifetimeMinutes
         IN  [id |-> token, exp |-> newExp,
              prefs |-> SavePrefs(prefs, DefaultLastCheckedSlot, token, newExp),
              saved |-> TRUE]
    ELSE [id |-> id, exp |-> exp, prefs |-> prefs, saved |-> FALSE]

MaybeResetCollectionId(prefs, last, id, exp, t, token) ==
    IF id = EmptyId \/ (~is_null(exp) /\ t > exp)
    THEN LET newExp == t + LifetimeMinutes
         IN  [id |-> token, exp |-> newExp,
              prefs |-> SavePrefs(prefs, last, token, newExp), saved |-> TRUE]
    ELSE [id |-> id, exp |-> exp, prefs |-> prefs, saved |-> FALSE]

\* The state after construction, on a fresh preference store.  The slot
\* members have no initializer in the constructor; last_checked_slot_ is read
\* only after LoadPrefs and current_collected_slot_ only after
\* SendCollectionSlot has assigned it, so the value given here is never read.
Init ==
    /\ now = MonthMinutes
    /\ slot_size \in 1..MaxSlotSize
    /\ simulate_duration \in 0..MaxSimulateDuration
    /\ feature_enabled \in BOOLEAN
    /\ dcheck_is_on \in BOOLEAN
    /\ local_state_ = [last_checked_slot |-> DefaultLastCheckedSlot,
                       collection_id |-> EmptyId,
                       collection_id_expiration |-> NullTime,
                       p3a_enabled |-> TRUE]
    /\ last_checked_slot_ = DefaultLastCheckedSlot
    /\ current_collected_slot_ = DefaultLastCheckedSlot
    /\ collection_id_ = EmptyId
    /\ collection_id_expiration_time_ = NullTime
    /\ simulate_local_training_step_timer_ = NullTimer
    /\ collection_slot_periodic_timer_ = NullTimer
    /\ url_loader_ = NullLoader
    /\ registered = FALSE
    /\ crashed = FALSE
    /\ event = Ev("Init", 0, FALSE, FALSE)
    /\ sent_in_slot = FALSE
    /\ acked_slot = DefaultLastCheckedSlot
    /\ attempt_budget = 0

\* Mutant: Start() without its DCHECKs.
StartDchecksPass_Missing == TRUE

\* The conditions of the two DCHECKs that open Start().
StartDchecksPass ==
    /\ ~simulate_local_training_step_timer_.exists
    /\ ~collection_slot_periodic_timer_.exists

\* Start(): the two DCHECKs (fatal where the build compiles them), LoadPrefs,
\* InitPrefChangeRegistrar, MaybeResetCollectionId, then both timers are
\* created and started.
Start ==
    /\ ~crashed
    /\ IF dcheck_is_on /\ ~StartDchecksPass
       THEN /\ crashed' = TRUE
            /\ event' = Ev("Start", 1, FALSE, FALSE)
            /\ UNCHANGED <<now, config, local_state_, members, timers,
                           url_loader_, registered, ghosts>>
       ELSE \E token \in Tokens \ {local_state_.collection_id} :
              LET r == MaybeResetCollectionId(local_state_,
                           local_state_.last_checked_slot,
                           local_state_.collection_id,
                           local_state_.collection_id_expiration, now, token)
              IN  /\ last_checked_slot_' = local_state_.last_checked_slot
                  /\ collection_id_' = r.id
                  /\ collection_id_expiration_time_' = r.exp
                  /\ local_state_' = r.prefs
                  /\ registered' = TRUE
                  /\ simulate_local_training_step_timer_' =
                        [exists |-> TRUE, running |-> TRUE,
                         remaining |-> SimulateDelay(simulate_duration)]
                  /\ collection_slot_periodic_timer_' =
                        [exists |-> TRUE, running |-> TRUE,
                         remaining |-> PeriodicDelay(slot_size)]
                  /\ event' = Ev("Start", IF Running THEN 1 ELSE 0, r.saved, FALSE)
                  /\ attempt_budget' = 1
                  /\ UNCHANGED <<now, config, current_collected_slot_,
                                 url_loader_, crashed, sent_in_slot,
                                 acked_slot>>

\* Mutant: Stop() forgets the repeating timer.
StopTimers_OneShotOnly ==
    /\ simulate_local_training_step_timer_' = NullTimer
    /\ UNCHANGED collection_slot_periodic_timer_

\* Mutant: Stop() forgets the one-shot timer.
StopTimers_PeriodicOnly ==
    /\ collection_slot_periodic_timer_' = NullTimer
    /\ UNCHANGED simulate_local_training_step_timer_

\* Stop(): both timers are destroyed; nothing else is touched.
StopTimers ==
    /\ simulate_local_training_step_timer_' = NullTimer
    /\ collection_slot_periodic_timer_' = NullTimer

\* Mutant: Stop() also destroys the loader, cancelling the request.
Stop_AbortsRequest ==
    /\ ~crashed
    /\ StopTimers
    /\ url_loader_' = NullLoader
    /\ event' = Ev("Stop", IF Running THEN 1 ELSE IF event.op = "Stop" THEN 2 ELSE 0,
                   FALSE, FALSE)
    /\ attempt_budget' = 0
    /\ UNCHANGED <<now, config, local_state_, members,
                   registered, crashed, sent_in_slot, acked_slot>>

Stop ==
    /\ ~crashed
    /\ StopTimers
    /\ event' = Ev("Stop", IF Running THEN 1 ELSE IF event.op = "Stop" THEN 2 ELSE 0,
                   FALSE, FALSE)
    /\ attempt_budget' = 0
    /\ UNCHANGED <<now, config, local_state_, members, url_loader_,
                   registered, crashed, sent_in_slot, acked_slot>>

\* Mutant: the feature flag is not consulted.
IsEnabled_IgnoresFeature(p3a_enabled, is_operational_profiling_enabled) ==
    p3a_enabled

\* The enablement signal OnPreferenceChanged computes.
IsEnabled(p3a_enabled, is_operational_profiling_enabled) ==
    p3a_enabled /\ is_operational_profiling_enabled

\* OnPreferenceChanged(key): Stop() unless P3A and the feature are enabled.
OnPreferenceChanged(prefs) ==
    IF ~IsEnabled(prefs.p3a_enabled, feature_enabled)
    THEN StopTimers
    ELSE UNCHANGED timers

\* The host flips kP3AEnabled; the preference store notifies the registrar's
\* observer, if Start() has added it, before the write returns.
SetP3AEnabled ==
    /\ ~crashed
    /\ \E v \in BOOLEAN \ {local_state_.p3a_enabled} :
          /\ local_state_' = [local_state_ EXCEPT !.p3a_enabled = v]
          /\ IF registered
             THEN /\ OnPreferenceChanged(local_state_')
                  /\ event' = Ev("OnPreferenceChanged",
                                 IF Running THEN 1 ELSE 0, FALSE, FALSE)
             ELSE /\ UNCHANGED timers
                  /\ event' = Ev("SetP3AEnabled", 0, FALSE, FALSE)
    /\ attempt_budget' = IF simulate_local_training_step_timer_'.exists
                          THEN attempt_budget ELSE 0
    /\ UNCHANGED <<now, config, members, url_loader_, registered, crashed,
                   sent_in_slot, acked_slot>>

\* OnCollectionSlotStartTimerFired(): the repeating timer is due; it is
\* scheduled again and the one-shot timer's countdown is reset.
OnCollectionSlotStartTimerFired ==
    /\ ~crashed
    /\ collection_slot_periodic_timer_.exists
    /\ collection_slot_periodic_timer_.remaining = 0
    /\ collection_slot_periodic_timer_' =
          [collection_slot_periodic_timer_ EXCEPT
              !.remaining = PeriodicDelay(slot_size)]
    /\ simulate_local_training_step_timer_' =
          [exists |-> TRUE, running |-> TRUE,
           remaining |-> SimulateDelay(simulate_duration)]
    /\ event' = Ev("OnCollectionSlotStartTimerFired", 0, FALSE, FALSE)
    /\ attempt_budget' = IF attempt_budget < MaxBudget
                          THEN attempt_budget + 1 ELSE attempt_budget
    /\ UNCHANGED <<now, config, local_state_, members, url_loader_,
                   registered, crashed, sent_in_slot, acked_slot>>

\* Mutant: a slot is skipped when it is not later than the last checked one.
AlreadyChecked_Ordered(current, last) == current <= last

\* The early return of SendCollectionSlot.
AlreadyChecked(current, last) == current = last

\* Mutant: a pending request keeps the loader; the new one gets no handle.
SendCollectionSlot_KeepsPending ==
    LET current == GetCurrentCollectionSlot(now, slot_size)
    IN  /\ current_collected_slot_' = current
        /\ IF AlreadyChecked(current, last_checked_slot_)
           THEN /\ event' = Ev("SendCollectionSlot", 0, FALSE, FALSE)
                /\ UNCHANGED <<local_state_, last_checked_slot_, collection_id_,
                               collection_id_expiration_time_, url_loader_,
                               sent_in_slot>>
           ELSE \E token \in Tokens \ {collection_id_} :
                  LET r == MaybeResetCollectionId(local_state_,
                               last_checked_slot_, collection_id_,
                               collection_id_expiration_time_, now, token)
                  IN  /\ collection_id_' = r.id
                      /\ collection_id_expiration_time_' = r.exp
                      /\ local_state_' = r.prefs
                      /\ url_loader_' =
                            IF url_loader_.state = "pending"
                            THEN url_loader_
                            ELSE [state |-> "pending",
                                  slot |-> current, id |-> r.id]
                      /\ sent_in_slot' = TRUE
                      /\ event' = Ev("SendCollectionSlot",
                                     IF url_loader_.state = "pending"
                                     THEN 1 ELSE 0, r.saved, TRUE)
                      /\ UNCHANGED last_checked_slot_

\* SendCollectionSlot(): compute the slot, return if it equals the last
\* checked one, else refresh the id and issue the request whose payload
\* (BuildPayload) carries the id and the slot.
SendCollectionSlot ==
    LET current == GetCurrentCollectionSlot(now, slot_size)
    IN  /\ current_collected_slot_' = current
        /\ IF AlreadyChecked(current, last_checked_slot_)
           THEN /\ event' = Ev("SendCollectionSlot", 0, FALSE, FALSE)
                /\ UNCHANGED <<local_state_, last_checked_slot_, collection_id_,
                               collection_id_expiration_time_, url_loader_,
                               sent_in_slot>>
           ELSE \E token \in Tokens \ {collection_id_} :
                  LET r == MaybeResetCollectionId(local_state_,
                               last_checked_slot_, collection_id_,
                               collection_id_expiration_time_, now, token)
                  IN  /\ collection_id_' = r.id
                      /\ collection_id_expiration_time_' = r.exp
                      /\ local_state_' = r.prefs
                      /\ url_loader_' = [state |-> "pending",
                                         slot |-> current, id |-> r.id]
                      /\ sent_in_slot' = TRUE
                      /\ event' = Ev("SendCollectionSlot",
                                     IF url_loader_.state = "pending"
                                     THEN 1 ELSE 0, r.saved, TRUE)
                      /\ UNCHANGED last_checked_slot_

\* Mutant: the startup timer repeats instead of firing once.
OnSimulateStepTimerFired_Repeats ==
    /\ ~crashed
    /\ simulate_local_training_step_timer_.running
    /\ simulate_local_training_step_timer_.remaining = 0
    /\ simulate_local_training_step_timer_' =
          [simulate_local_training_step_timer_ EXCEPT
              !.remaining = SimulateDelay(simulate_duration)]
    /\ SendCollectionSlot
    /\ attempt_budget' = IF attempt_budget > 0
                          THEN attempt_budget - 1 ELSE attempt_budget
    /\ UNCHANGED <<now, config, collection_slot_periodic_timer_, registered,
                   crashed, acked_slot>>

\* OnSimulateLocalTrainingStepTimerFired(): the one-shot timer is due.
OnSimulateLocalTrainingStepTimerFired ==
    /\ ~crashed
    /\ simulate_local_training_step_timer_.running
    /\ simulate_local_training_step_timer_.remaining = 0
    /\ simulate_local_training_step_timer_' =
          [simulate_local_training_step_timer_ EXCEPT !.running = FALSE]
    /\ SendCollectionSlot
    /\ attempt_budget' = IF attempt_budget > 0
                          THEN attempt_budget - 1 ELSE attempt_budget
    /\ UNCHANGED <<now, config, collection_slot_periodic_timer_, registered,
                   crashed, acked_slot>>

ResponseCode(headers) == IF headers # NoHeaders THEN headers ELSE -1

\* Mutant: any response that has headers counts as a success.
IsSuccess_AnyHeaders(response_code) == response_code # -1

IsSuccess(response_code) == response_code = 200

\* Mutant: the response handler issues the request again.
OnUploadComplete_Retries ==
    /\ ~crashed
    /\ url_loader_.state = "pending"
    /\ \E headers \in ResponseHeaders :
          LET response_code == ResponseCode(headers)
          IN  /\ IF IsSuccess(response_code)
                 THEN /\ last_checked_slot_' = current_collected_slot_
                      /\ local_state_' = SavePrefs(local_state_,
                              current_collected_slot_, collection_id_,
                              collection_id_expiration_time_)
                 ELSE UNCHANGED <<last_checked_slot_, local_state_>>
              /\ event' = Ev("OnUploadComplete", response_code,
                             IsSuccess(response_code), FALSE)
              /\ acked_slot' = IF response_code = 200 THEN url_loader_.slot
                                ELSE acked_slot
    /\ url_loader_' = url_loader_
    /\ UNCHANGED <<now, config, current_collected_slot_, collection_id_,
                   collection_id_expiration_time_, timers, registered, crashed,
                   sent_in_slot, attempt_budget>>

\* OnUploadComplete(headers): the completion callback of the request
\* url_loader_ holds.
OnUploadComplete ==
    /\ ~crashed
    /\ url_loader_.state = "pending"
    /\ \E headers \in ResponseHeaders :
          LET response_code == ResponseCode(headers)
          IN  /\ IF IsSuccess(response_code)
                 THEN /\ last_checked_slot_' = current_collected_slot_
                      /\ local_state_' = SavePrefs(local_state_,
                              current_collected_slot_, collection_id_,
                              collection_id_expiration_time_)
                 ELSE UNCHANGED <<last_checked_slot_, local_state_>>
              /\ event' = Ev("OnUploadComplete", response_code,
                             IsSuccess(response_code), FALSE)
              /\ acked_slot' = IF response_code = 200 THEN url_loader_.slot
                                ELSE acked_slot
    /\ url_loader_' = DoneLoader
    /\ UNCHANGED <<now, config, current_collected_slot_, collection_id_,
                   collection_id_expiration_time_, timers, registered, crashed,
                   sent_in_slot, attempt_budget>>

\* --------------------------------------------------------------- the clocks
TimerDue(timer) == timer.running /\ timer.remaining = 0

CountDown(timer) ==
    IF timer.running THEN [timer EXCEPT !.remaining = @ - 1] ELSE timer

\* The monotonic clock advances by TickSeconds; a due timer fires first.
Tick ==
    /\ ~crashed
    /\ Running
    /\ ~TimerDue(simulate_local_training_step_timer_)
    /\ ~TimerDue(collection_slot_periodic_timer_)
    /\ simulate_local_training_step_timer_' =
          CountDown(simulate_local_training_step_timer_)
    /\ collection_slot_periodic_timer_' =
          CountDown(collection_slot_periodic_timer_)
    /\ event' = Ev("Tick", 0, FALSE, FALSE)
    /\ UNCHANGED <<now, config, local_state_, members, url_loader_,
                   registered, crashed, ghosts>>

\* The wall clock moves: time passing, or a forward or backward adjustment.
WallClockChange ==
    /\ ~crashed
    /\ \E t \in Instants \ {now} :
          /\ now' = t
          /\ sent_in_slot' =
                (sent_in_slot /\ GetCurrentCollectionSlot(t, slot_size) = CurrentSlot)
    /\ event' = Ev("WallClockChange", 0, FALSE, FALSE)
    /\ UNCHANGED <<config, local_state_, members, timers, url_loader_,
                   registered, crashed, acked_slot, attempt_budget>>

\* The owning service destroys the instance (its timers, its loader with
\* the pending callback, its registrar) and constructs a new one on the same
\* preference store, as a restart of the browser does.
NewInstance ==
    /\ ~crashed
    /\ registered
    /\ last_checked_slot_' = DefaultLastCheckedSlot
    /\ current_collected_slot_' = DefaultLastCheckedSlot
    /\ collection_id_' = EmptyId
    /\ collection_id_expiration_time_' = NullTime
    /\ simulate_local_training_step_timer_' = NullTimer
    /\ collection_slot_periodic_timer_' = NullTimer
    /\ url_loader_' = NullLoader
    /\ registered' = FALSE
    /\ event' = Ev("NewInstance", 0, FALSE, FALSE)
    /\ attempt_budget' = 0
    /\ UNCHANGED <<now, config, local_state_, crashed, sent_in_slot,
                   acked_slot>>

Next ==
    \/ Start
    \/ Stop
    \/ SetP3AEnabled
    \/ OnCollectionSlotStartTimerFired
    \/ OnSimulateLocalTrainingStepTimerFired
    \/ OnUploadComplete
    \/ Tick
    \/ WallClockChange
    \/ NewInstance

Spec == Init /\ [][Next]_vars

\* The task runner runs a due timer task and keeps the clock going.
FairSpec ==
    /\ Spec
    /\ WF_vars(Tick)
    /\ WF_vars(OnCollectionSlotStartTimerFired)
    /\ WF_vars(OnSimulateLocalTrainingStepTimerFired)

\* ------------------------------------------------------------------ claims
BothTimersNull ==
    /\ simulate_local_training_step_timer_ = NullTimer
    /\ collection_slot_periodic_timer_ = NullTimer

\* C1: while CurrentSlot does not change, at most one request is issued: no
\* step issues a request when one was already issued since the slot last
\* changed.  (Stated for the builds whose DCHECKs stop a second Start(), so
\* that no violation rests on a caller starting the scheduler twice.)
C1_SlotDeduplication == [][(dcheck_is_on /\ sent_in_slot) => ~event'.sent]_vars

\* C2: handling an HTTP 200 response sets the in-memory and the persisted
\* LastCheckedSlot to the slot of the payload of the request it answers.
\* (Stated for the builds whose DCHECKs stop a second Start().)
C2_SuccessPersistsPayloadSlot ==
    [][(dcheck_is_on /\ event'.op = "OnUploadComplete" /\ event'.arg = 200)
         => /\ last_checked_slot_' = url_loader_.slot
            /\ local_state_'.last_checked_slot = url_loader_.slot]_vars

\* C3: a response whose code is not 200 leaves LastCheckedSlot, the id, its
\* expiration and the preferences unchanged and saves nothing; a response
\* whose code is 200 sets LastCheckedSlot and saves it.
C3_FailureLeavesCursor ==
    [][event'.op = "OnUploadComplete"
         => IF event'.arg = 200
            THEN /\ event'.saved
                 /\ last_checked_slot_' = current_collected_slot_
                 /\ local_state_'.last_checked_slot = last_checked_slot_'
            ELSE /\ ~event'.saved
                 /\ UNCHANGED <<last_checked_slot_, collection_id_,
                                collection_id_expiration_time_, local_state_>>]_vars

\* A failed response arrived while the slot it would have recorded differs
\* from LastCheckedSlot.
C3_Witness ==
    /\ event.op = "OnUploadComplete"
    /\ event.arg \in {-1, 404, 500}
    /\ current_collected_slot_ # last_checked_slot_

\* C4: while the scheduler stays Running with CurrentSlot different from
\* LastCheckedSlot, an upload attempt is eventually made (or the scheduler
\* is stopped or started anew), for every delay of the two timers.
C4_AttemptDue == Running /\ ~crashed /\ CurrentSlot # last_checked_slot_

C4_AttemptMade ==
    event.op \in {"SendCollectionSlot", "Start"} \/ ~Running \/ crashed

C4_RetryByNextSlot == C4_AttemptDue ~> C4_AttemptMade

\* The steps in which MaybeResetCollectionId runs: a Start() that passes its
\* DCHECKs, after LoadPrefs, and a SendCollectionSlot() that does not return
\* early.  StoredId and StoredExpiration are the id and the expiration it
\* finds.
RanMaybeReset == (event'.op = "Start" /\ ~crashed') \/ event'.sent

StoredId ==
    IF event'.op = "Start" THEN local_state_.collection_id ELSE collection_id_

StoredExpiration ==
    IF event'.op = "Start" THEN local_state_.collection_id_expiration
    ELSE collection_id_expiration_time_

\* C5: when the stored id is non-empty and now <= expiration,
\* MaybeResetCollectionId keeps the id and the expiration and writes no
\* preference.
C5_IdStability ==
    [][(RanMaybeReset /\ StoredId # EmptyId /\ now <= StoredExpiration)
         => /\ collection_id_' = StoredId
            /\ collection_id_expiration_time_' = StoredExpiration
            /\ ~event'.saved
            /\ local_state_' = local_state_]_vars

\* An upload was attempted at the very instant the id expires: the id was
\* kept.
C5_Witness ==
    /\ event.sent
    /\ ~event.saved
    /\ collection_id_ # EmptyId
    /\ now = collection_id_expiration_time_

\* C6: when the stored id is empty, or the stored expiration is non-null and
\* now > expiration, MaybeResetCollectionId installs a non-empty id other
\* than the stored one, sets the expiration to now + CollectionIdLifetime
\* days, and saves both in the same step.
C6_IdRotation ==
    [][(RanMaybeReset
          /\ (StoredId = EmptyId
                \/ (StoredExpiration # NullTime /\ now > StoredExpiration)))
         => /\ collection_id_' \notin {EmptyId, StoredId}
            /\ collection_id_expiration_time_' = now + CollectionIdLifetime * 24 * 60
            /\ event'.saved
            /\ local_state_'.collection_id = collection_id_'
            /\ local_state_'.collection_id_expiration =
                  collection_id_expiration_time_']_vars

\* An upload attempt replaced an expired id.
C6_Witness ==
    /\ event.sent
    /\ event.saved
    /\ local_state_.collection_id = collection_id_
    /\ collection_id_expiration_time_ = now + CollectionIdLifetime * 24 * 60

\* C7: once Start() has completed, the in-memory and the persisted id are
\* non-empty, and a request just issued carries the in-memory id, which is
\* non-empty and whose expiration, when not null, has not passed.
C7_IdNeverEmpty ==
    /\ registered
         => (collection_id_ # EmptyId /\ local_state_.collection_id # EmptyId)
    /\ event.sent
         => /\ url_loader_.state = "pending"
            /\ url_loader_.id = collection_id_
            /\ url_loader_.id # EmptyId
            /\ (is_null(collection_id_expiration_time_)
                  \/ now <= collection_id_expiration_time_)

\* A request was issued right after its id was rotated.
C7_Witness ==
    /\ registered
    /\ event.sent
    /\ event.saved
    /\ url_loader_.id # EmptyId

\* C8: Stop(), whether or not a timer exists, raises no error, leaves no
\* timer, and leaves LastCheckedSlot, the id, its expiration and the
\* preferences unchanged.
C8_StopIdempotence ==
    [][event'.op = "Stop"
         => /\ BothTimersNull'
            /\ ~crashed'
            /\ UNCHANGED <<last_checked_slot_, collection_id_,
                           collection_id_expiration_time_, local_state_>>]_vars

\* Stop() ran right after Stop().
C8_Witness ==
    /\ event.op = "Stop"
    /\ event.arg = 2
    /\ BothTimersNull

\* C9: a change notification that observes the enablement signal false
\* leaves no timer; only Start() creates a timer (a notification never
\* does); and an upload attempt starts only while the timers exist.
C9_StopOnDisablement ==
    [][/\ (event'.op = "OnPreferenceChanged"
             /\ ~(local_state_'.p3a_enabled /\ feature_enabled))
          => BothTimersNull'
       /\ ((~simulate_local_training_step_timer_.exists
              /\ simulate_local_training_step_timer_'.exists)
            \/ (~collection_slot_periodic_timer_.exists
                  /\ collection_slot_periodic_timer_'.exists))
          => event'.op = "Start"
       /\ event'.op = "SendCollectionSlot" => Running]_vars

\* A notification stopped a running scheduler although P3A is enabled: the
\* feature is not.
C9_Witness ==
    /\ event.op = "OnPreferenceChanged"
    /\ event.arg = 1
    /\ local_state_.p3a_enabled
    /\ BothTimersNull

C11_CursorSurvivesRestart ==
    [][(/\ dcheck_is_on
        /\ event'.op = "SendCollectionSlot"
        /\ current_collected_slot_ = DefaultLastCheckedSlot
        /\ acked_slot # DefaultLastCheckedSlot
        /\ CurrentSlot = acked_slot)
         => /\ ~event'.sent
            /\ now <= collection_id_expiration_time_
                  => collection_id_' = collection_id_]_vars

\* C12: an attempt issues a request exactly when CurrentSlot differs from
\* LastCheckedSlot, whichever of the two is the larger; the request issued
\* is the one the loader then holds, for CurrentSlot and the current id, and
\* an attempt that issues none leaves the loader alone.
C12_EligibilityByEquality ==
    [][event'.op = "SendCollectionSlot"
         => /\ event'.sent <=> (CurrentSlot # last_checked_slot_)
            /\ event'.sent
                  => url_loader_' = [state |-> "pending", slot |-> CurrentSlot,
                                     id |-> collection_id_']
            /\ ~event'.sent => UNCHANGED url_loader_]_vars

\* A request was issued for a slot smaller than the last checked one.
C12_Witness ==
    /\ event.op = "SendCollectionSlot"
    /\ event.sent
    /\ url_loader_.state = "pending"
    /\ last_checked_slot_ # DefaultLastCheckedSlot
    /\ url_loader_.slot < last_checked_slot_

\* C13: an attempt that issues no request writes no preference, leaves the
\* cursor, the id, its expiration and the loader as they were, and leaves the
\* slot that a pending response would record on 200 as it was.
C13_SkipIsNoOp ==
    [][(/\ dcheck_is_on
        /\ event'.op = "SendCollectionSlot"
        /\ ~event'.sent)
         => /\ UNCHANGED <<local_state_, last_checked_slot_, collection_id_,
                           collection_id_expiration_time_, url_loader_>>
            /\ url_loader_.state = "pending"
                  => UNCHANGED current_collected_slot_]_vars

\* C14: Stop(), called directly or on disablement, leaves the loader and its
\* pending request alone; while no timer exists a pending response can
\* still be delivered; a response is handled only for a pending request,
\* touches no timer, and one with code 200 sets LastCheckedSlot and saves it.
C14_StopKeepsRequest ==
    [][/\ event'.op \in {"Stop", "OnPreferenceChanged"}
            => UNCHANGED url_loader_
       /\ (BothTimersNull /\ url_loader_.state = "pending" /\ ~crashed)
            => ENABLED OnUploadComplete
       /\ event'.op = "OnUploadComplete"
            => /\ url_loader_.state = "pending"
               /\ UNCHANGED timers
               /\ event'.arg = 200
                     => /\ last_checked_slot_' = current_collected_slot_
                        /\ local_state_'.last_checked_slot =
                              last_checked_slot_']_vars

\* A response with code 200 was handled after Stop(): the cursor is set and
\* saved while no timer exists.
C14_Witness ==
    /\ event.op = "OnUploadComplete"
    /\ event.arg = 200
    /\ BothTimersNull
    /\ last_checked_slot_ = current_collected_slot_
    /\ local_state_.last_checked_slot = last_checked_slot_

\* C15: the persisted LastCheckedSlot changes only in a step that handles a
\* response with code 200, and once Start() has loaded it the in-memory
\* LastCheckedSlot of the instance changes only in such a step, which saves
\* the new value in the same step.
C15_CursorOnlyBySuccess ==
    [][/\ local_state_'.last_checked_slot # local_state_.last_checked_slot
            => /\ event'.op = "OnUploadComplete"
               /\ event'.arg = 200
       /\ (/\ registered
           /\ event'.op # "NewInstance"
           /\ last_checked_slot_' # last_checked_slot_)
            => /\ event'.op = "OnUploadComplete"
               /\ event'.arg = 200
       /\ (event'.op = "OnUploadComplete" /\ event'.arg = 200)
            => local_state_'.last_checked_slot = last_checked_slot_']_vars

\* An attempt rotated the id and rewrote the three preferences; the cursor
\* of an earlier success is still in memory and in the preferences.
C15_Witness ==
    /\ event.op = "SendCollectionSlot"
    /\ event.saved
    /\ last_checked_slot_ # DefaultLastCheckedSlot
    /\ local_state_.last_checked_slot = last_checked_slot_

\* C16: a request is issued only by an attempt made when the startup timer
\* is due while both timers exist; a step that handles a response leaves no
\* request pending and touches no timer; a fire of the periodic timer leaves
\* the loader alone.
C16_NoRetryFromResponse ==
    [][/\ (event'.sent
              \/ (url_loader_'.state = "pending" /\ url_loader_' # url_loader_))
            => /\ event'.op = "SendCollectionSlot"
               /\ simulate_local_training_step_timer_.exists
               /\ collection_slot_periodic_timer_.exists
               /\ simulate_local_training_step_timer_.running
               /\ simulate_local_training_step_timer_.remaining = 0
       /\ event'.op = "OnUploadComplete"
            => /\ ~event'.sent
               /\ url_loader_'.state # "pending"
               /\ UNCHANGED timers
       /\ event'.op = "OnCollectionSlotStartTimerFired"
            => /\ ~event'.sent
               /\ UNCHANGED url_loader_]_vars

\* A failed response was handled while both timers exist: no request is
\* pending and the startup timer stays disarmed.
C16_Witness ==
    /\ event.op = "OnUploadComplete"
    /\ event.arg = 500
    /\ url_loader_.state = "done"
    /\ Running
    /\ ~simulate_local_training_step_timer_.running

\* C17: an attempt is made only when the startup timer is armed and disarms
\* it; a disarmed startup timer becomes armed only by Start() or by a fire
\* of the periodic timer; and an attempt is made only while the number of
\* attempts since Start() is at most the number of periodic fires since
\* Start(), so that afterwards it does not exceed that number plus one.
C17_OneShotRearmed ==
    [][/\ event'.op = "SendCollectionSlot"
            => /\ simulate_local_training_step_timer_.running
               /\ ~simulate_local_training_step_timer_'.running
               /\ attempt_budget >= 1
       /\ (/\ ~simulate_local_training_step_timer_.running
           /\ simulate_local_training_step_timer_'.running)
            => event'.op \in {"Start", "OnCollectionSlotStartTimerFired"}]_vars

\* An attempt was made after an earlier request and none is owed: the
\* startup timer stays disarmed until the periodic timer fires.
C17_Witness ==
    /\ event.op = "SendCollectionSlot"
    /\ attempt_budget = 0
    /\ sent_in_slot
    /\ ~event.sent
    /\ ~simulate_local_training_step_timer_.running
    /\ Running

\* C18: the startup timer exists exactly when the periodic timer exists, so a
\* fire of the periodic timer always finds a startup timer to reset.
C18_TimersExistTogether ==
    simulate_local_training_step_timer_.exists
        = collection_slot_periodic_timer_.exists

\* The periodic timer has fired and has reset the startup timer.
C18_Witness ==
    /\ event.op = "OnCollectionSlotStartTimerFired"
    /\ collection_slot_periodic_timer_.exists
    /\ simulate_local_training_step_timer_.exists
    /\ simulate_local_training_step_timer_.running
    /\ simulate_local_training_step_timer_.remaining =
          SimulateDelay(simulate_duration)

\* C19: once Start() has run on the instance, the persisted LastCheckedSlot,
\* collection id and expiration equal the in-memory ones in every state.
C19_PersistedMirrorsMemory ==
    registered
       => /\ local_state_.last_checked_slot = last_checked_slot_
          /\ local_state_.collection_id = collection_id_
          /\ local_state_.collection_id_expiration =
                collection_id_expiration_time_

\* Start() found a cursor and an expired id in the preferences, rotated the
\* id and saved it.
C19_Witness ==
    /\ event.op = "Start"
    /\ event.saved
    /\ registered
    /\ last_checked_slot_ # DefaultLastCheckedSlot
    /\ local_state_.last_checked_slot = last_checked_slot_
    /\ local_state_.collection_id = collection_id_
    /\ local_state_.collection_id_expiration = collection_id_expiration_time_

\* C20: the loader is one handle: a newly issued request replaces whatever
\* the loader held, a response is handled only for the request the loader
\* holds and uses that handle up, and the cursor of a started instance is
\* changed by no other step.
C20_SingleLoaderHandle ==
    [][/\ event'.sent
            => url_loader_' = [state |-> "pending",
                               slot |-> current_collected_slot_',
                               id |-> collection_id_']
       /\ event'.op = "OnUploadComplete"
            => /\ url_loader_.state = "pending"
               /\ url_loader_'.state = "done"
               /\ event'.arg = 200 => acked_slot' = url_loader_.slot
       /\ (/\ registered
           /\ event'.op # "NewInstance"
           /\ last_checked_slot_' # last_checked_slot_)
            => /\ event'.op = "OnUploadComplete"
               /\ url_loader_.state = "pending"]_vars

\* A request was issued while another was pending: the loader holds the new
\* one only.
C20_Witness ==
    /\ event.op = "SendCollectionSlot"
    /\ event.sent
    /\ event.arg = 1
    /\ url_loader_ = [state |-> "pending", slot |-> current_collected_slot_,
                      id |-> collection_id_]

=============================================================================
